---------------------------- MODULE Spec2Model ----------------------------
(***************************************************************************)
(* Planly: the local-first store (services/storage.ts), its subscription   *)
(* bus, and its synchronisation with one remote JSON file through the      *)
(* Drive adapter (services/drive.ts).                                      *)
(*                                                                         *)
(* Execution model.  JavaScript runs one job at a time.  Every `await`     *)
(* ends the running job and queues the rest of the function as a new job   *)
(* (a promise reaction) at the back of the microtask queue, here `jobs`;   *)
(* a job runs to its next `await` without interruption.  A call of an      *)
(* exported function made by application code (an event handler, an        *)
(* observer, a promise callback) runs the function up to its first         *)
(* `await` and may happen between any two jobs.  A network answer is a     *)
(* task: it is delivered only when the microtask queue is empty, and it    *)
(* queues the job that was waiting for it.                                 *)
(*                                                                         *)
(* Values.  A localStorage item is <<>> (no such key) or <<v>> (the JSON   *)
(* text of v).  A record of a table is [id, v]: v stands for all fields    *)
(* other than the id.  An absent optional fileId is NoFile.                *)
(***************************************************************************)
EXTENDS Integers, Sequences, FiniteSets, TLC

VARIABLES
    ls,           \* localStorage: [auth, events, wishlist, cfg], each an item
    listeners,    \* the Set<Listener>, in insertion order
    behav,        \* what each observer callback does when it is invoked
    handles,      \* observers for which subscribe() has returned an unsubscribe
    unsubCalls,   \* how many times each observer's latest unsubscribe was called
    lastNotify,   \* the last notifyListeners run: registered at start, invoked
    notifyCount,  \* number of notifyListeners() runs so far
    jobs,         \* the microtask queue: suspended async functions ready to resume
    pending,      \* tasks awaited from outside: requests, timers, library callbacks
    drive,        \* the remote files named db.json, not trashed: Seq of [id, content]
    gapi,         \* window.gapi: [loaded, token]
    adapter,      \* drive.ts 8-10 and window.google: [google, tokenClient, gapiInited, gisInited]
    settled,      \* the initializeGoogleServices promises that are settled
    env,          \* import.meta.env: [clientId, apiKey]
    firestore,    \* firebase.ts: [db, docs], db defined or not, the documents of each collection
    calls,        \* number of calls made by the application so far
    opLog,        \* table mutations, in the order in which they took effect
    overlapped,   \* a mutation was started while another one had not returned
    retLog,       \* what every returned mutating call returned and did
    pushLog,      \* how every finished push ended
    pullLog,      \* how every finished pull ended
    callLog       \* how every finished initializeStorage / handleConnectDrive ended

vars == <<ls, listeners, behav, handles, unsubCalls, lastNotify, notifyCount, jobs, pending,
          drive, gapi, env, firestore, adapter, settled, callLog, calls, opLog, overlapped, retLog, pushLog, pullLog>>

-----------------------------------------------------------------------------
(* Bounds of the model *)

MaxCalls == 3
MaxId == 2
MaxListeners == 2
MaxStartupCalls == 2
MaxUnsubscribes == 2

Ids == 1 .. MaxId
NewPayload == "p"
EditedPayload == "q"
AuthValues == {"u1"}
Listeners == 1 .. MaxListeners

-----------------------------------------------------------------------------
(* types.ts *)

INITIAL_CREDENTIALS == "im_suka"

NoFile == 0

NoItem == <<>>

NoConfig == [clientId |-> "", apiKey |-> "", connected |-> FALSE, fileId |-> NoFile]

Stringify(v) == <<v>>

Parse(s) == s[1]

(* A UserConfig whose optional password is undefined (types.ts 54-57), and
   what JSON.stringify keeps of it: properties that are undefined are left
   out of the text. *)
WithoutPassword == "u2+undefined"

OmitUndefined(config) == IF config = WithoutPassword THEN "u2" ELSE config

(* JSON.stringify(undefined) is undefined, and localStorage.setItem stores it
   as the text "undefined", which JSON.parse rejects with a SyntaxError:
   an item that is present and holds no one value. *)
UndefinedText == <<<<>>, <<>>>>

(* JSON.stringify(data[f]) of a fetched document, which holds the key or
   does not. *)
StringifyField(data, f) ==
    IF f \in DOMAIN data THEN Stringify(data[f]) ELSE UndefinedText

(* JSON.stringify of an AppDatabase *)
StringifyDatabase(data) == Stringify([data EXCEPT !.auth = OmitUndefined(@)])

-----------------------------------------------------------------------------
(* Subscription bus: storage.ts 11-22 *)

Empty == 0

Compact(ent) == SelectSeq(ent, LAMBDA l : l # Empty)

SetAdd(ent, l) ==
    IF \E i \in DOMAIN ent : ent[i] = l THEN ent ELSE Append(ent, l)

(* Not the code: a delete that registers the observer again when it finds
   it absent. *)
SetDeleteOrAdd(ent, l) ==
    IF \E i \in DOMAIN ent : ent[i] = l
    THEN [i \in DOMAIN ent |-> IF ent[i] = l THEN Empty ELSE ent[i]]
    ELSE Append(ent, l)

SetDelete(ent, l) ==
    [i \in DOMAIN ent |-> IF ent[i] = l THEN Empty ELSE ent[i]]

Behaviours ==
    {[do |-> "none", x |-> Empty]}
      \cup {[do |-> d, x |-> l] : d \in {"sub", "unsub"}, l \in Listeners}

RunListener(ent, b) ==
    CASE b.do = "sub" -> SetAdd(ent, b.x)
      [] b.do = "unsub" -> SetDelete(ent, b.x)
      [] OTHER -> ent

RECURSIVE ForEach(_, _, _, _)
ForEach(ent, bh, i, invoked) ==
    IF i > Len(ent) THEN [ent |-> Compact(ent), invoked |-> invoked]
    ELSE IF ent[i] = Empty THEN ForEach(ent, bh, i + 1, invoked)
    ELSE ForEach(RunListener(ent, bh[ent[i]]), bh, i + 1, Append(invoked, ent[i]))

NotifyListeners(ent, bh) == ForEach(ent, bh, 1, <<>>)

Range(s) == {s[i] : i \in DOMAIN s}

Subscribe(l) ==
    /\ listeners' = SetAdd(listeners, l)
    /\ handles' = handles \cup {l}
    /\ unsubCalls' = [unsubCalls EXCEPT ![l] = 0]
    /\ UNCHANGED <<ls, behav, lastNotify, notifyCount, jobs, pending, drive, gapi,
                   env, firestore, adapter, settled, callLog, calls, opLog, overlapped, retLog, pushLog, pullLog>>

Unsubscribe(l) ==
    /\ l \in handles
    /\ unsubCalls[l] < MaxUnsubscribes
    /\ unsubCalls' = [unsubCalls EXCEPT ![l] = @ + 1]
    /\ listeners' = Compact(SetDelete(listeners, l))
    /\ UNCHANGED <<ls, behav, handles, lastNotify, notifyCount, jobs, pending, drive,
                   gapi, env, firestore, adapter, settled, callLog, calls, opLog, overlapped, retLog, pushLog, pullLog>>

-----------------------------------------------------------------------------
(* Local store reads: storage.ts 29-53, 150-158, 167-170, 203-206 *)

GetDriveConfig(store) ==
    LET config == IF store.cfg # NoItem
                  THEN Parse(store.cfg)
                  ELSE NoConfig
        c1 == IF env.clientId # "" THEN [config EXCEPT !.clientId = env.clientId]
              ELSE config
    IN  IF env.apiKey # "" THEN [c1 EXCEPT !.apiKey = env.apiKey] ELSE c1

GetAuthInfo(store) ==
    IF store.auth # NoItem THEN Parse(store.auth) ELSE INITIAL_CREDENTIALS

GetEvents(store) ==
    IF store.events # NoItem THEN Parse(store.events) ELSE <<>>

GetWishlist(store) ==
    IF store.wishlist # NoItem THEN Parse(store.wishlist) ELSE <<>>

GetTable(store, t) ==
    IF t = "events" THEN GetEvents(store) ELSE GetWishlist(store)

(* getEvents 167-170 and getWishlist 203-206 reject: JSON.parse throws, and
   nothing catches it. *)
Unreadable(store, t) == store[t] = UndefinedText

(* What the three tables hold at one instant. *)
Tables(store) ==
    [auth |-> GetAuthInfo(store), events |-> GetEvents(store),
     wishlist |-> GetWishlist(store)]

-----------------------------------------------------------------------------
(* The array steps of the mutators: storage.ts 175, 184-186, 195 *)

(* Not the code: a create that puts the new record first. *)
PushRecordFront(list, rec) == <<rec>> \o list

PushRecord(list, rec) == Append(list, rec)

FindIndex(list, id) ==
    IF \E i \in DOMAIN list : list[i].id = id
    THEN CHOOSE i \in DOMAIN list :
            /\ list[i].id = id
            /\ \A k \in 1 .. (i - 1) : list[k].id # id
    ELSE -1

AssignAt(list, index, rec) == [list EXCEPT ![index] = rec]

Filter(list, id) == SelectSeq(list, LAMBDA e : e.id # id)

-----------------------------------------------------------------------------
(* Start of a push: storage.ts 76-81 and 61-62; drive.ts 106-108 *)

HasValidToken(g) == IF g.loaded THEN g.token # "null" ELSE TRUE

GetFullDatabase(store, ctx) ==
    [k |-> "gfd.auth", ctx |-> ctx, auth |-> GetAuthInfo(store),
     events |-> <<>>, wishlist |-> <<>>, seen |-> {Tables(store)}]

SyncKinds ==
    {"gfd.auth", "gfd.events", "gfd.wishlist", "std.data", "sfd.data",
     "idf.list", "sfd.file", "sfd.get", "sfd.catch"}

(* A push or a pull other than call n has started and has not returned. *)
OtherSyncInFlight(n) ==
    \/ \E i \in DOMAIN jobs : jobs[i].k \in SyncKinds /\ jobs[i].ctx.id # n
    \/ \E r \in pending : r.ctx.owner \in {"push", "pull"} /\ r.ctx.id # n

(* The pushes and pulls that have ended so far. *)
SyncsEnded == Cardinality(pushLog) + Cardinality(pullLog)

(* syncToDrive 76-81.  The context of the push also records how it started:
   after a push that failed, with no other push or pull in flight. *)
SyncToDrive(store, g, n) ==
    LET config == GetDriveConfig(store)
    IN  IF ~config.connected \/ config.fileId = NoFile \/ ~HasValidToken(g)
        THEN <<>>
        ELSE <<GetFullDatabase(store, [owner |-> "push", id |-> n,
                                       caller |-> "mutator",
                                       config |-> config,
                                       afterFailure |-> \E e \in pushLog : ~e.landed,
                                       quiet |-> ~OtherSyncInFlight(n),
                                       ended |-> SyncsEnded])>>

(* A snapshot that is still reading the tables sees every state they take. *)
Observe(q, store) ==
    [i \in DOMAIN q |->
        IF q[i].k \in {"gfd.auth", "gfd.events"}
        THEN [q[i] EXCEPT !.seen = @ \cup {Tables(store)}]
        ELSE q[i]]

MutatorKinds ==
    {"createEvent", "updateEvent", "deleteEvent",
     "createWishlistItem", "updateWishlistItem", "deleteWishlistItem"}

MutationInFlight == \E i \in DOMAIN jobs : jobs[i].k \in MutatorKinds

-----------------------------------------------------------------------------
(* The mutators: storage.ts 160-163, 172-199, 208-239 *)

(* The part of a mutator that follows its last array step, or the rejection
   of its read of the table, after which it does nothing. *)
Finish(rest, store, j, ret, wrote, doNotify, doSync, entries) ==
    LET r == NotifyListeners(listeners, behav)
        q == IF wrote THEN Observe(rest, store) ELSE rest
    IN  /\ ls' = store
        /\ IF doNotify
           THEN /\ listeners' = r.ent
                /\ lastNotify' = [start |-> Range(listeners), invoked |-> r.invoked]
                /\ notifyCount' = notifyCount + 1
           ELSE UNCHANGED <<listeners, lastNotify, notifyCount>>
        /\ jobs' = q \o (IF doSync THEN SyncToDrive(store, gapi, j.id) ELSE <<>>)
        /\ opLog' = opLog \o entries
        /\ retLog' = retLog \cup
              {[id |-> j.id, op |-> j.k, ret |-> ret, wrote |-> wrote,
                notified |-> notifyCount' - notifyCount, threw |-> j.failed]}
        /\ UNCHANGED <<behav, handles, unsubCalls, pending, drive, gapi, env, firestore, adapter, settled, callLog, calls, overlapped,
                       pushLog, pullLog>>

Call(job) ==
    /\ calls < MaxCalls
    /\ calls' = calls + 1
    /\ jobs' = Append(jobs, job)
    /\ overlapped' = (overlapped \/ MutationInFlight)
    /\ UNCHANGED <<ls, listeners, behav, handles, unsubCalls, lastNotify, notifyCount, pending,
                   drive, gapi, env, firestore, adapter, settled, callLog, opLog, retLog, pushLog, pullLog>>

Running(kind) == jobs # <<>> /\ Head(jobs).k = kind

CallCreate(kind, t) ==
    Call([k |-> kind, id |-> calls + 1, t |-> t, list |-> GetTable(ls, t),
          failed |-> Unreadable(ls, t),
          rec |-> [id |-> 0, v |-> NewPayload]])

CallUpdate(kind, t) ==
    \E i \in Ids :
        Call([k |-> kind, id |-> calls + 1, t |-> t, list |-> GetTable(ls, t),
          failed |-> Unreadable(ls, t),
              rec |-> [id |-> i, v |-> EditedPayload]])

CallDelete(kind, t) ==
    \E i \in Ids :
        Call([k |-> kind, id |-> calls + 1, t |-> t, list |-> GetTable(ls, t),
          failed |-> Unreadable(ls, t),
              rec |-> [id |-> i, v |-> "-"]])

GenerateId == Ids

CreateJob(kind) ==
    /\ Running(kind)
    /\ \E newId \in GenerateId :
        LET j == Head(jobs)
            newRec == [id |-> newId, v |-> j.rec.v]
            list == PushRecord(j.list, newRec)
        IN  IF j.failed
            THEN Finish(Tail(jobs), ls, j, <<>>, FALSE, FALSE, FALSE, <<>>)
            ELSE Finish(Tail(jobs), [ls EXCEPT ![j.t] = Stringify(list)], j,
                        <<newRec>>, TRUE, TRUE, TRUE,
                        <<[t |-> j.t, op |-> "create", rec |-> newRec]>>)

UpdateJob(kind) ==
    /\ Running(kind)
    /\ LET j == Head(jobs)
           index == FindIndex(j.list, j.rec.id)
           entry == <<[t |-> j.t, op |-> "update", rec |-> j.rec]>>
       IN  IF j.failed
           THEN Finish(Tail(jobs), ls, j, <<>>, FALSE, FALSE, FALSE, <<>>)
           ELSE IF index # -1
           THEN Finish(Tail(jobs),
                       [ls EXCEPT ![j.t] = Stringify(AssignAt(j.list, index, j.rec))],
                       j, <<>>, TRUE, TRUE, TRUE, entry)
           ELSE Finish(Tail(jobs), ls, j, <<>>, FALSE, FALSE, FALSE, entry)

DeleteJob(kind) ==
    /\ Running(kind)
    /\ LET j == Head(jobs)
           filtered == Filter(j.list, j.rec.id)
       IN  IF j.failed
           THEN Finish(Tail(jobs), ls, j, <<>>, FALSE, FALSE, FALSE, <<>>)
           ELSE Finish(Tail(jobs), [ls EXCEPT ![j.t] = Stringify(filtered)], j,
                       <<>>, TRUE, TRUE, TRUE,
                       <<[t |-> j.t, op |-> "delete", rec |-> j.rec]>>)

CallCreateEvent == CallCreate("createEvent", "events")

CreateEvent == CreateJob("createEvent")

CallUpdateEvent == CallUpdate("updateEvent", "events")

UpdateEvent == UpdateJob("updateEvent")

CallDeleteEvent == CallDelete("deleteEvent", "events")

DeleteEvent == DeleteJob("deleteEvent")

CallCreateWishlistItem == CallCreate("createWishlistItem", "wishlist")

CreateWishlistItem == CreateJob("createWishlistItem")

CallUpdateWishlistItem == CallUpdate("updateWishlistItem", "wishlist")

UpdateWishlistItem == UpdateJob("updateWishlistItem")

CallDeleteWishlistItem == CallDelete("deleteWishlistItem", "wishlist")

DeleteWishlistItem == DeleteJob("deleteWishlistItem")

(* updateAuthInfo has no await: the whole function runs in the caller's job. *)
UpdateAuthInfoOf(values) ==
    /\ calls < MaxCalls
    /\ calls' = calls + 1
    /\ UNCHANGED <<listeners, behav, handles, unsubCalls, lastNotify, notifyCount, pending, drive,
                   gapi, env, firestore, adapter, settled, callLog, opLog, overlapped, pushLog, pullLog>>
    /\ \E config \in values :
        LET j == [k |-> "updateAuthInfo", id |-> calls + 1]
            store == [ls EXCEPT !.auth = Stringify(OmitUndefined(config))]
        IN  /\ ls' = store
            /\ jobs' = Observe(jobs, store) \o SyncToDrive(store, gapi, j.id)
            /\ retLog' = retLog \cup
                  {[id |-> j.id, op |-> j.k, ret |-> <<>>, wrote |-> TRUE,
                    notified |-> notifyCount' - notifyCount, threw |-> FALSE]}

UpdateAuthInfo == UpdateAuthInfoOf(AuthValues)

(* The page reads a table.  getAuthInfo 150-158 catches what JSON.parse
   throws; getEvents 167-170 and getWishlist 203-206 do not. *)
CallGet(op, threw) ==
    /\ calls < MaxCalls
    /\ calls' = calls + 1
    /\ retLog' = retLog \cup
          {[id |-> calls + 1, op |-> op, ret |-> <<>>, wrote |-> FALSE,
            notified |-> 0, threw |-> threw]}
    /\ UNCHANGED <<ls, listeners, behav, handles, unsubCalls, lastNotify, notifyCount, jobs,
                   pending, drive, gapi, env, firestore, adapter, settled, callLog, opLog,
                   overlapped, pushLog, pullLog>>

CallGetAuthInfo == CallGet("getAuthInfo", FALSE)

CallGetEvents == CallGet("getEvents", Unreadable(ls, "events"))

CallGetWishlist == CallGet("getWishlist", Unreadable(ls, "wishlist"))

UpdateAuthInfoWithoutPassword == UpdateAuthInfoOf({WithoutPassword})

-----------------------------------------------------------------------------
(* getFullDatabase after its first read: storage.ts 62-70 *)

(* Not the code: a snapshot that leaves the events out. *)
AppDatabaseWithoutEvents(j) ==
    [auth |-> j.auth, events |-> <<>>, wishlist |-> j.wishlist]

AppDatabase(j) == [auth |-> j.auth, events |-> j.events, wishlist |-> j.wishlist]

(* A job of a push or a pull: it changes the queue, the requests in flight and
   localStorage as given, and nothing else of the program. *)
SyncStep(q, requests, store) ==
    /\ jobs' = q
    /\ pending' = requests
    /\ ls' = store
    /\ UNCHANGED <<listeners, behav, handles, unsubCalls, lastNotify, notifyCount, drive, gapi,
                   env, firestore, adapter, settled, callLog, calls, opLog, overlapped, retLog, pushLog, pullLog>>

(* How a push ends: storage.ts 83-86.  The two jobs that follow the answer
   (updateData returns, syncToDrive logs) read and write nothing. *)
PushEnd(j, resolved, landed, alone, carried) ==
    pushLog \cup
      {[id |-> j.ctx.id, data |-> j.data, resolved |-> resolved,
        landed |-> landed, atomic |-> j.data \in j.seen,
        alone |-> alone /\ j.ctx.quiet /\ j.ctx.ended = SyncsEnded,
        afterFailure |-> j.ctx.afterFailure, carried |-> carried,
        bearer |-> IF "bearer" \in DOMAIN j THEN j.bearer ELSE "none"]}

Throw(j, err) == [k |-> "sfd.catch", ctx |-> j.ctx, data |-> j.data, err |-> err]

(* getEvents or getWishlist rejects, and getFullDatabase with it: the catch
   block of syncToDrive (84-86) logs, that of syncFromDrive (140-145) runs in
   the next job. *)
SnapshotFails(j) ==
    LET jj == [ctx |-> j.ctx, data |-> AppDatabase(j), seen |-> j.seen]
    IN  /\ IF j.ctx.owner = "push"
           THEN /\ jobs' = Tail(jobs)
                /\ pushLog' = PushEnd(jj, FALSE, FALSE, FALSE, FALSE)
           ELSE /\ jobs' = Append(Tail(jobs), Throw(jj, "read"))
                /\ pushLog' = pushLog
        /\ UNCHANGED <<ls, listeners, behav, handles, unsubCalls, lastNotify, notifyCount,
                       pending, drive, gapi, env, firestore, adapter, settled, callLog,
                       calls, opLog, overlapped, retLog, pullLog>>

GfdAuth ==
    /\ Running("gfd.auth")
    /\ LET j == Head(jobs)
       IN  IF Unreadable(ls, "events") THEN SnapshotFails(j)
           ELSE SyncStep(Append(Tail(jobs),
                                [j EXCEPT !.k = "gfd.events", !.events = GetEvents(ls)]),
                         pending, ls)

GfdEvents ==
    /\ Running("gfd.events")
    /\ LET j == Head(jobs)
       IN  IF Unreadable(ls, "wishlist") THEN SnapshotFails(j)
           ELSE SyncStep(Append(Tail(jobs),
                                [j EXCEPT !.k = "gfd.wishlist",
                                          !.wishlist = GetWishlist(ls)]),
                         pending, ls)

GfdWishlist ==
    /\ Running("gfd.wishlist")
    /\ LET j == Head(jobs)
           next == IF j.ctx.owner = "push" THEN "std.data" ELSE "sfd.data"
       IN  SyncStep(Append(Tail(jobs),
                           [k |-> next, ctx |-> j.ctx, data |-> AppDatabase(j),
                            seen |-> j.seen]),
                    pending, ls)

-----------------------------------------------------------------------------
(* Push: storage.ts 81-86, drive.ts 181-196 *)

TokenReadable(g) == g.loaded /\ g.token # "null"

(* Not the code: a persist that writes the default credentials. *)
UpdateDataDefaultAuth(j) ==
    [k |-> "PATCH", ctx |-> j.ctx, fileId |-> j.ctx.config.fileId,
     data |-> j.data,
     content |-> StringifyDatabase([j.data EXCEPT !.auth = INITIAL_CREDENTIALS]),
     bearer |-> gapi.token, seen |-> j.seen]

UpdateData(j) ==
    [k |-> "PATCH", ctx |-> j.ctx, fileId |-> j.ctx.config.fileId,
     data |-> j.data, content |-> StringifyDatabase(j.data),
     bearer |-> gapi.token, seen |-> j.seen]

StdData ==
    /\ Running("std.data")
    /\ LET j == Head(jobs)
       IN  /\ jobs' = Tail(jobs)
           /\ IF TokenReadable(gapi)
              THEN pending' = pending \cup {UpdateData(j)} /\ pushLog' = pushLog
              ELSE pending' = pending /\ pushLog' = PushEnd(j, FALSE, FALSE, FALSE, FALSE)
    /\ UNCHANGED <<ls, listeners, behav, handles, unsubCalls, lastNotify, notifyCount, drive,
                   gapi, env, firestore, adapter, settled, callLog, calls, opLog, overlapped, retLog, pullLog>>

HasFile(d, id) == \E i \in DOMAIN d : d[i].id = id

FileContent(d, id) == (CHOOSE i \in DOMAIN d : d[i].id = id)

WriteFile(d, id, content) ==
    [i \in DOMAIN d |-> IF d[i].id = id THEN [d[i] EXCEPT !.content = content]
                        ELSE d[i]]

(* The remote service answers a request: only between tasks. *)
Answer(r, q, d) ==
    /\ jobs = <<>>
    /\ r \in pending
    /\ pending' = pending \ {r}
    /\ jobs' = q
    /\ drive' = d
    /\ UNCHANGED <<ls, listeners, behav, handles, unsubCalls, lastNotify, notifyCount, gapi,
                   env, firestore, adapter, settled, callLog, calls, opLog, overlapped, retLog>>

(* Not the code: a remote that keeps the Snapshot of the push started last. *)
PatchOkLastCallWins ==
    \E r \in pending :
        /\ r.k = "PATCH"
        /\ r.bearer = "valid"
        /\ HasFile(drive, r.fileId)
        /\ LET d == IF \E e \in pushLog : e.landed /\ e.id > r.ctx.id
                    THEN drive
                    ELSE WriteFile(drive, r.fileId, r.content)
           IN  /\ Answer(r, <<>>, d)
               /\ pushLog' = PushEnd(r, TRUE, TRUE, ~OtherSyncInFlight(r.ctx.id),
                                     Parse(d[FileContent(d, r.fileId)].content)
                                         \in r.seen)
               /\ pullLog' = pullLog

PatchOk ==
    \E r \in pending :
        /\ r.k = "PATCH"
        /\ r.bearer = "valid"
        /\ HasFile(drive, r.fileId)
        /\ LET d == WriteFile(drive, r.fileId, r.content)
           IN  /\ Answer(r, <<>>, d)
               /\ pushLog' = PushEnd(r, TRUE, TRUE, ~OtherSyncInFlight(r.ctx.id),
                                     Parse(d[FileContent(d, r.fileId)].content)
                                         \in r.seen)
               /\ pullLog' = pullLog

(* An error status (401, 404, 5xx): fetch resolves all the same. *)
PatchHttpError ==
    \E r \in pending :
        /\ r.k = "PATCH"
        /\ Answer(r, <<>>, drive)
        /\ pushLog' = PushEnd(r, TRUE, FALSE, FALSE, FALSE)
        /\ pullLog' = pullLog

(* Not the code: a push whose failure undoes the events written locally. *)
PatchNetworkErrorRollsBack ==
    \E r \in pending :
        /\ r.k = "PATCH"
        /\ jobs = <<>>
        /\ pending' = pending \ {r}
        /\ ls' = [ls EXCEPT !.events = NoItem]
        /\ pushLog' = PushEnd(r, FALSE, FALSE, FALSE, FALSE)
        /\ UNCHANGED <<listeners, behav, handles, unsubCalls, lastNotify, notifyCount, jobs,
                       drive, gapi, env, firestore, adapter, settled, callLog, calls, opLog,
                       overlapped, retLog, pullLog>>

PatchNetworkError ==
    \E r \in pending :
        /\ r.k = "PATCH"
        /\ Answer(r, <<>>, drive)
        /\ pushLog' = PushEnd(r, FALSE, FALSE, FALSE, FALSE)
        /\ pullLog' = pullLog

-----
(* Pull: storage.ts 117-146, drive.ts 121-179 *)

Deliver(r, q, d) == Answer(r, q, d) /\ UNCHANGED <<pushLog, pullLog>>

NoData == [auth |-> "", events |-> <<>>, wishlist |-> <<>>]

(* What the reads return while nothing is stored. *)
FreshData == [auth |-> INITIAL_CREDENTIALS, events |-> <<>>, wishlist |-> <<>>]

(* What a job of a pull has written so far, read off the stores themselves. *)
Wrote(ctx, store) ==
    [ctx EXCEPT !.wroteTables = @ \/ Tables(store) # Tables(ls),
                !.wroteConfig = @ \/ store.cfg # ls.cfg]

PullEntry(ctx, result, err, start, before, fetched, after, notified) ==
    [id |-> ctx.id, caller |-> ctx.caller, result |-> result, err |-> err,
     wroteTables |-> ctx.wroteTables, wroteConfig |-> ctx.wroteConfig,
     created |-> ctx.created,
     start |-> start, before |-> before, fetched |-> fetched, after |-> after,
     notified |-> notified]

(* The caller of a settled pull resumes. *)
Resume(ctx, ok) ==
    IF ctx.caller = "app" THEN <<>>
    ELSE <<[k |-> ctx.caller, ctx |-> ctx, ok |-> ok]>>

(* syncFromDrive 117-122, called with localStorage `store` and queue `q` *)
SyncFromDrive(store, q, n, caller) ==
    LET config == GetDriveConfig(store)
        ctx == [owner |-> "pull", id |-> n, config |-> config, caller |-> caller,
                wroteTables |-> FALSE, wroteConfig |-> FALSE,
                created |-> NoFile]
    IN  IF ~config.connected
        THEN /\ jobs' = q \o Resume(ctx, TRUE)
             /\ pullLog' = pullLog \cup
                  {PullEntry(ctx, "returned", "", NoData, NoData, NoData, NoData, 0)}
        ELSE /\ jobs' = Append(q, GetFullDatabase(store, ctx))
             /\ pullLog' = pullLog

CallSyncFromDrive ==
    /\ calls < MaxCalls
    /\ calls' = calls + 1
    /\ SyncFromDrive(ls, jobs, calls + 1, "app")
    /\ UNCHANGED <<ls, listeners, behav, handles, unsubCalls, lastNotify, notifyCount, pending,
                   drive, gapi, env, firestore, adapter, settled, callLog, opLog, overlapped, retLog, pushLog>>

(* initDatabaseFile up to its await *)
SfdData ==
    /\ Running("sfd.data")
    /\ LET j == Head(jobs)
       IN  IF gapi.loaded
           THEN SyncStep(Tail(jobs),
                         pending \cup {[k |-> "LIST", ctx |-> j.ctx, data |-> j.data,
                                    bearer |-> gapi.token]},
                         ls)
           ELSE SyncStep(Append(Tail(jobs), Throw(j, "list")), pending, ls)

ListOk ==
    \E r \in pending :
        /\ r.k = "LIST"
        /\ r.bearer = "valid"
        /\ \E first \in {d.id : d \in Range(drive)} \cup {NoFile} :
            /\ first = NoFile <=> drive = <<>>
            /\ Deliver(r, <<[k |-> "idf.list", ctx |-> r.ctx, data |-> r.data,
                            first |-> first]>>, drive)

ListError ==
    \E r \in pending :
        /\ r.k = "LIST"
        /\ Deliver(r, <<Throw(r, "list")>>, drive)

(* initDatabaseFile after files.list; createDatabaseFile up to its fetch *)
IdfList ==
    /\ Running("idf.list")
    /\ LET j == Head(jobs)
       IN  IF j.first # NoFile
           THEN SyncStep(Append(Tail(jobs),
                                [k |-> "sfd.file", ctx |-> j.ctx, data |-> j.data,
                                 fileId |-> j.first]),
                         pending, ls)
           ELSE IF TokenReadable(gapi)
           THEN SyncStep(Tail(jobs),
                         pending \cup {[k |-> "POST", ctx |-> j.ctx, data |-> j.data,
                                    content |-> StringifyDatabase(j.data),
                                    bearer |-> gapi.token]},
                         ls)
           ELSE SyncStep(Append(Tail(jobs), Throw(j, "create")), pending, ls)

(* Not the code: a creation that uploads the metadata without the content. *)
PostOkWithoutContent ==
    \E r \in pending :
        /\ r.k = "POST"
        /\ r.bearer = "valid"
        /\ LET id == Len(drive) + 1
           IN  Deliver(r, <<[k |-> "sfd.file", ctx |-> [r.ctx EXCEPT !.created = id],
                            data |-> r.data, fileId |-> id]>>,
                      Append(drive, [id |-> id, content |-> Stringify(FreshData)]))

PostOk ==
    \E r \in pending :
        /\ r.k = "POST"
        /\ r.bearer = "valid"
        /\ LET id == Len(drive) + 1
           IN  Deliver(r, <<[k |-> "sfd.file", ctx |-> [r.ctx EXCEPT !.created = id],
                            data |-> r.data, fileId |-> id]>>,
                      Append(drive, [id |-> id, content |-> r.content]))

(* An error status: the answer's JSON body has no id. *)
PostHttpError ==
    \E r \in pending :
        /\ r.k = "POST"
        /\ Deliver(r, <<[k |-> "sfd.file", ctx |-> r.ctx, data |-> r.data,
                        fileId |-> NoFile]>>, drive)

PostNetworkError ==
    \E r \in pending :
        /\ r.k = "POST"
        /\ Deliver(r, <<Throw(r, "create")>>, drive)

(* syncFromDrive 127-131: the handle is stored, then the file is requested *)
SfdFile ==
    /\ Running("sfd.file")
    /\ LET j == Head(jobs)
           newConfig == [j.ctx.config EXCEPT !.fileId = j.fileId]
           store == [ls EXCEPT !.cfg = Stringify(newConfig)]
           jj == [j EXCEPT !.ctx = Wrote(j.ctx, store)]
       IN  IF gapi.loaded
           THEN SyncStep(Tail(jobs),
                         pending \cup {[k |-> "GET", ctx |-> jj.ctx, data |-> j.data,
                                    fileId |-> j.fileId, bearer |-> gapi.token]},
                         store)
           ELSE SyncStep(Append(Tail(jobs), Throw(jj, "get")), pending, store)

GetOk ==
    \E r \in pending :
        /\ r.k = "GET"
        /\ r.bearer = "valid"
        /\ HasFile(drive, r.fileId)
        /\ Deliver(r, <<[k |-> "sfd.get", ctx |-> r.ctx, data |-> r.data,
                        result |-> Parse(drive[FileContent(drive, r.fileId)].content)]>>,
                  drive)

GetError ==
    \E r \in pending :
        /\ r.k = "GET"
        /\ Deliver(r, <<Throw(r, "get")>>, drive)

(* Not the code: a hydration that keeps the local events. *)
HydrateKeepsEvents(store, data) ==
    [store EXCEPT !.auth = Stringify(data.auth),
                  !.wishlist = Stringify(data.wishlist)]

Hydrate(store, data) ==
    [store EXCEPT !.auth = Stringify(OmitUndefined(data.auth)),
                  !.events = StringifyField(data, "events"),
                  !.wishlist = StringifyField(data, "wishlist")]

(* syncFromDrive 133-138 *)
SfdGet ==
    /\ Running("sfd.get")
    /\ LET j == Head(jobs)
           store == Hydrate(ls, j.result)
           ctx == Wrote(j.ctx, store)
           r == NotifyListeners(listeners, behav)
       IN  /\ ls' = store
           /\ listeners' = r.ent
           /\ lastNotify' = [start |-> Range(listeners), invoked |-> r.invoked]
           /\ notifyCount' = notifyCount + 1
           /\ jobs' = Observe(Tail(jobs), store) \o Resume(ctx, TRUE)
           /\ pullLog' = pullLog \cup
                {PullEntry(ctx, "resolved", "", j.data, Tables(ls), j.result,
                           Tables(store), notifyCount' - notifyCount)}
    /\ UNCHANGED <<behav, handles, unsubCalls, pending, drive, gapi, env, firestore, adapter, settled, callLog, calls, opLog, overlapped,
                   retLog, pushLog>>

(* Not the code: a catch block that tells the observers. *)
SfdCatchNotifies ==
    /\ Running("sfd.catch")
    /\ UNCHANGED <<behav, handles, unsubCalls, pending, drive, gapi, env, firestore, adapter, settled,
                   callLog, calls, opLog, overlapped, retLog, pushLog>>
    /\ LET j == Head(jobs)
           r == NotifyListeners(listeners, behav)
       IN  /\ ls' = ls
           /\ listeners' = r.ent
           /\ lastNotify' = [start |-> Range(listeners), invoked |-> r.invoked]
           /\ notifyCount' = notifyCount + 1
           /\ jobs' = Tail(jobs) \o Resume(j.ctx, FALSE)
           /\ pullLog' = pullLog \cup
                {PullEntry(Wrote(j.ctx, ls), "rejected", j.err, j.data, NoData,
                           NoData, NoData, 1)}

(* syncFromDrive 140-145 *)
SfdCatch ==
    /\ Running("sfd.catch")
    /\ UNCHANGED <<listeners, behav, handles, unsubCalls, lastNotify, notifyCount, pending, drive,
                   gapi, env, firestore, adapter, settled, callLog, calls, opLog, overlapped, retLog, pushLog>>
    /\ LET j == Head(jobs)
           store == ls
       IN  /\ ls' = store
           /\ jobs' = Tail(jobs) \o Resume(j.ctx, FALSE)
           /\ pullLog' = pullLog \cup
                {PullEntry(Wrote(j.ctx, store), "rejected", j.err, j.data, NoData,
                           NoData, NoData, notifyCount' - notifyCount)}

-----------------------------------------------------------------------------
(* The adapter's initialisation and sign-in: drive.ts 15-104 *)

(* What none of the steps of this part and of the next one changes. *)
appVars == <<listeners, behav, handles, unsubCalls, lastNotify, notifyCount, drive, env, firestore,
             opLog, overlapped, retLog, pushLog>>

(* resolve() / reject() of the promise of call ctx.id: a promise settles once,
   and the function awaiting it resumes in a later job. *)
Settlement(ctx, ok) ==
    IF ctx.id \in settled THEN <<>>
    ELSE <<[k |-> "services", ctx |-> ctx, ok |-> ok]>>

CheckGapi(ctx) ==
    IF gapi.loaded THEN {[k |-> "gapi.load", ctx |-> ctx]}
    ELSE {[k |-> "checkGapi", ctx |-> ctx]}

CheckGis(ctx, a) ==
    IF a.google
    THEN [adapter |-> [a EXCEPT !.tokenClient = TRUE, !.gisInited = TRUE],
          timers |-> {}, resolve |-> a.gapiInited]
    ELSE [adapter |-> a, timers |-> {[k |-> "checkGis", ctx |-> ctx]},
          resolve |-> FALSE]

(* The executor of the promise: checkGapi(); checkGis(); with queue q *)
InitializeGoogleServices(ctx, q) ==
    LET s == CheckGis(ctx, adapter)
    IN  /\ adapter' = s.adapter
        /\ pending' = pending \cup CheckGapi(ctx) \cup s.timers
        /\ jobs' = q \o (IF s.resolve THEN Settlement(ctx, TRUE) ELSE <<>>)
        /\ settled' = IF s.resolve THEN settled \cup {ctx.id} ELSE settled

(* A task of the adapter: a timer, a script or a library callback. *)
AdapterTask(r, q, tasks, a, done, g) ==
    /\ jobs = <<>>
    /\ r \in pending
    /\ jobs' = q
    /\ pending' = (pending \ {r}) \cup tasks
    /\ adapter' = a
    /\ settled' = done
    /\ gapi' = g
    /\ UNCHANGED <<ls, calls, callLog, pullLog, appVars>>

CheckGapiTimer ==
    \E r \in pending :
        /\ r.k = "checkGapi"
        /\ AdapterTask(r, <<>>, CheckGapi(r.ctx), adapter, settled, gapi)

CheckGisTimer ==
    \E r \in pending :
        /\ r.k = "checkGis"
        /\ LET s == CheckGis(r.ctx, adapter)
           IN  AdapterTask(r, IF s.resolve THEN Settlement(r.ctx, TRUE) ELSE <<>>,
                           s.timers, s.adapter,
                           IF s.resolve THEN settled \cup {r.ctx.id} ELSE settled,
                           gapi)

(* gapi.load('client', callback): the callback starts gapi.client.init *)
GapiLoad ==
    \E r \in pending :
        /\ r.k = "gapi.load"
        /\ AdapterTask(r, <<>>, {[k |-> "client.init", ctx |-> r.ctx]}, adapter,
                       settled, gapi)

ClientInitOk ==
    \E r \in pending :
        /\ r.k = "client.init"
        /\ AdapterTask(r, IF adapter.gisInited THEN Settlement(r.ctx, TRUE) ELSE <<>>,
                       {}, [adapter EXCEPT !.gapiInited = TRUE],
                       IF adapter.gisInited THEN settled \cup {r.ctx.id} ELSE settled,
                       gapi)

ClientInitError ==
    \E r \in pending :
        /\ r.k = "client.init"
        /\ AdapterTask(r, Settlement(r.ctx, FALSE), {}, adapter,
                       settled \cup {r.ctx.id}, gapi)

(* The two script tags of the page finish loading. *)
GapiScriptLoads ==
    /\ jobs = <<>>
    /\ ~gapi.loaded
    /\ gapi' = [gapi EXCEPT !.loaded = TRUE]
    /\ UNCHANGED <<ls, jobs, pending, adapter, settled, calls, callLog, pullLog,
                   appVars>>

GisScriptLoads ==
    /\ jobs = <<>>
    /\ ~adapter.google
    /\ adapter' = [adapter EXCEPT !.google = TRUE]
    /\ UNCHANGED <<ls, jobs, pending, gapi, settled, calls, callLog, pullLog,
                   appVars>>

(* signIn: drive.ts 55-66.  The consent popup answers through the callback,
   or never if the user closes it. *)
SignIn(ctx) ==
    IF adapter.tokenClient
    THEN [jobs |-> <<>>, tasks |-> {[k |-> "consent", ctx |-> ctx]}]
    ELSE [jobs |-> <<[k |-> "signedIn", ctx |-> ctx, ok |-> FALSE]>>, tasks |-> {}]

ConsentGranted ==
    \E r \in pending :
        /\ r.k = "consent"
        /\ AdapterTask(r, <<[k |-> "signedIn", ctx |-> r.ctx, ok |-> TRUE]>>, {},
                       adapter, settled, [gapi EXCEPT !.token = "valid"])

ConsentDenied ==
    \E r \in pending :
        /\ r.k = "consent"
        /\ AdapterTask(r, <<[k |-> "signedIn", ctx |-> r.ctx, ok |-> FALSE]>>, {},
                       adapter, settled, gapi)

(* trySilentSignIn: drive.ts 68-104 *)
TrySilentSignIn ==
    IF ~adapter.tokenClient THEN FALSE
    ELSE gapi.loaded /\ gapi.token = "valid"

-----------------------------------------------------------------------------
(* The two callers of a pull: Settings.tsx 61-92; storage.ts 90-114 with
   App.tsx 24-30 *)

CallEntry(ctx, path, pull, threw, outcome) ==
    [id |-> ctx.id, path |-> path, pull |-> pull, threw |-> threw,
     outcome |-> outcome]

(* The Client ID and API Key fields of the form: loaded from the stored
   configuration (Settings.tsx 32-34), typed by the user when it has none. *)
Credentials(store) ==
    LET c == GetDriveConfig(store)
    IN  [clientId |-> IF c.clientId = "" THEN "id" ELSE c.clientId,
         apiKey |-> IF c.apiKey = "" THEN "key" ELSE c.apiKey]

(* isSyncing, set from the first line of handleConnectDrive to its finally
   block: the Connect button is rendered with isLoading={isSyncing}. *)
IsSyncing ==
    \/ \E i \in DOMAIN jobs :
          jobs[i].k \notin MutatorKinds /\ jobs[i].ctx.caller = "connect"
    \/ \E r \in pending : r.ctx.caller = "connect"

CallHandleConnectDrive ==
    /\ calls < MaxStartupCalls
    /\ ~IsSyncing
    /\ calls' = calls + 1
    /\ InitializeGoogleServices([owner |-> "connect", id |-> calls + 1,
                                 caller |-> "connect",
                                 config |-> Credentials(ls)], jobs)
    /\ UNCHANGED <<ls, gapi, callLog, pullLog, appVars>>

(* Not the code: a failed connect that keeps the cached handle. *)
ConnectCatchKeepsHandle(q, ctx, pull) ==
    /\ jobs' = q
    /\ ls' = [ls EXCEPT !.cfg = Stringify([clientId |-> ctx.config.clientId,
                                           apiKey |-> ctx.config.apiKey,
                                           connected |-> FALSE,
                                           fileId |-> GetDriveConfig(ls).fileId])]
    /\ callLog' = callLog \cup {CallEntry(ctx, "connect", pull, TRUE, "error")}

(* Settings.tsx 83-87 *)
ConnectCatch(q, ctx, pull) ==
    /\ jobs' = q
    /\ ls' = [ls EXCEPT !.cfg = Stringify([clientId |-> ctx.config.clientId,
                                           apiKey |-> ctx.config.apiKey,
                                           connected |-> FALSE,
                                           fileId |-> NoFile])]
    /\ callLog' = callLog \cup {CallEntry(ctx, "connect", pull, TRUE, "error")}

(* Settings.tsx 67-70 *)
ConnectServices ==
    /\ Running("services")
    /\ Head(jobs).ctx.caller = "connect"
    /\ LET j == Head(jobs)
           s == SignIn(j.ctx)
       IN  IF j.ok
           THEN /\ jobs' = Tail(jobs) \o s.jobs
                /\ pending' = pending \cup s.tasks
                /\ UNCHANGED <<ls, callLog>>
           ELSE /\ ConnectCatch(Tail(jobs), j.ctx, "none")
                /\ pending' = pending
    /\ UNCHANGED <<gapi, adapter, settled, calls, pullLog, appVars>>

(* Settings.tsx 72-80 *)
ConnectSignedIn ==
    /\ Running("signedIn")
    /\ LET j == Head(jobs)
           store == [ls EXCEPT !.cfg = Stringify([clientId |-> j.ctx.config.clientId,
                                                  apiKey |-> j.ctx.config.apiKey,
                                                  connected |-> TRUE,
                                                  fileId |-> NoFile])]
       IN  IF j.ok
           THEN /\ ls' = store
                /\ SyncFromDrive(store, Tail(jobs), j.ctx.id, "connect")
                /\ callLog' = callLog
           ELSE /\ ConnectCatch(Tail(jobs), j.ctx, "none")
                /\ pullLog' = pullLog
    /\ UNCHANGED <<pending, gapi, adapter, settled, calls, appVars>>

(* Settings.tsx 80-90 *)
ConnectSynced ==
    /\ Running("connect")
    /\ LET j == Head(jobs)
       IN  IF j.ok
           THEN /\ jobs' = Tail(jobs)
                /\ ls' = ls
                /\ callLog' = callLog \cup
                     {CallEntry(j.ctx, "connect", "fulfilled", FALSE, "success")}
           ELSE ConnectCatch(Tail(jobs), j.ctx, "rejected")
    /\ UNCHANGED <<pending, gapi, adapter, settled, calls, pullLog, appVars>>

(* initializeStorage returns `value` (it has no path that rejects) and the
   effect of App, which awaits it, clears isLoading: App.tsx 26-27 *)
InitReturn(q, ctx, pull, value) ==
    /\ jobs' = q
    /\ callLog' = callLog \cup {CallEntry(ctx, "init", pull, FALSE, value)}

(* storage.ts 90-96, 113 *)
CallInitializeStorage ==
    /\ calls < MaxStartupCalls
    /\ calls' = calls + 1
    /\ LET config == GetDriveConfig(ls)
           ctx == [owner |-> "init", id |-> calls + 1, caller |-> "init",
                   config |-> config]
       IN  IF config.clientId # "" /\ config.apiKey # ""
           THEN /\ InitializeGoogleServices(ctx, jobs)
                /\ callLog' = callLog
           ELSE /\ InitReturn(jobs, ctx, "none", "false")
                /\ UNCHANGED <<pending, adapter, settled>>
    /\ UNCHANGED <<ls, gapi, pullLog, appVars>>

(* storage.ts 96-100, 107-111 *)
InitServices ==
    /\ Running("services")
    /\ Head(jobs).ctx.caller = "init"
    /\ LET j == Head(jobs)
       IN  IF ~j.ok THEN InitReturn(Tail(jobs), j.ctx, "none", "false")
           ELSE IF j.ctx.config.connected
           THEN /\ jobs' = Append(Tail(jobs), [k |-> "restored", ctx |-> j.ctx,
                                                ok |-> TrySilentSignIn])
                /\ callLog' = callLog
           ELSE InitReturn(Tail(jobs), j.ctx, "none", "true")
    /\ UNCHANGED <<ls, pending, gapi, adapter, settled, calls, pullLog, appVars>>

(* Not the code: a startup that pulls whatever the silent restore reported. *)
InitRestoredAlwaysPulls ==
    /\ Running("restored")
    /\ SyncFromDrive(ls, Tail(jobs), Head(jobs).ctx.id, "init")
    /\ callLog' = callLog
    /\ UNCHANGED <<ls, pending, gapi, adapter, settled, calls, appVars>>

(* storage.ts 100-107 *)
InitRestored ==
    /\ Running("restored")
    /\ LET j == Head(jobs)
       IN  IF j.ok
           THEN /\ SyncFromDrive(ls, Tail(jobs), j.ctx.id, "init")
                /\ callLog' = callLog
           ELSE /\ InitReturn(Tail(jobs), j.ctx, "none", "true")
                /\ pullLog' = pullLog
    /\ UNCHANGED <<ls, pending, gapi, adapter, settled, calls, appVars>>

(* storage.ts 103-104, 108-111 *)
InitSynced ==
    /\ Running("init")
    /\ LET j == Head(jobs)
       IN  IF j.ok THEN InitReturn(Tail(jobs), j.ctx, "fulfilled", "true")
           ELSE InitReturn(Tail(jobs), j.ctx, "rejected", "false")
    /\ UNCHANGED <<ls, pending, gapi, adapter, settled, calls, pullLog, appVars>>

-----------------------------------------------------------------------------
(* The end of a session: Settings.tsx 94-99, drive.ts 110-116 *)

(* What gapi.client.getToken() returns once signOut has called setToken(''):
   null, or the empty string it was given. *)
SignedOutTokens == {"null", "empty"}

(* The server stops honouring the access token: the requests that have not
   reached it yet will be refused. *)
Refused(requests, as) ==
    {IF "bearer" \in DOMAIN r /\ r.bearer = "valid" THEN [r EXCEPT !.bearer = as] ELSE r :
        r \in requests}

(* Not the code: a disconnect that forgets to sign out. *)
HandleDisconnectKeepsToken ==
    /\ calls < MaxCalls
    /\ calls' = calls + 1
    /\ gapi.loaded
    /\ ls' = [ls EXCEPT !.cfg = Stringify([clientId |-> Credentials(ls).clientId,
                                           apiKey |-> Credentials(ls).apiKey,
                                           connected |-> FALSE,
                                           fileId |-> NoFile])]
    /\ callLog' = callLog \cup
         {CallEntry([id |-> calls + 1], "disconnect", "none", FALSE, "success")}
    /\ UNCHANGED <<listeners, behav, handles, unsubCalls, lastNotify, notifyCount, jobs,
                   pending, drive, gapi, env, firestore, adapter, settled, opLog, overlapped,
                   retLog, pushLog, pullLog>>

(* handleDisconnectDrive, with signOut: it reads gapi.client, so it runs in a
   page where gapi is loaded. *)
HandleDisconnectDrive ==
    /\ calls < MaxCalls
    /\ calls' = calls + 1
    /\ gapi.loaded
    /\ IF gapi.token = "null"
       THEN gapi' = gapi /\ pending' = pending
       ELSE /\ \E t \in SignedOutTokens : gapi' = [gapi EXCEPT !.token = t]
            /\ pending' = pending \cup
                 {[k |-> "revoke", ctx |-> [owner |-> "disconnect", id |-> calls + 1,
                                           caller |-> "disconnect"]]}
    /\ ls' = [ls EXCEPT !.cfg = Stringify([clientId |-> Credentials(ls).clientId,
                                           apiKey |-> Credentials(ls).apiKey,
                                           connected |-> FALSE,
                                           fileId |-> NoFile])]
    /\ callLog' = callLog \cup
         {CallEntry([id |-> calls + 1], "disconnect", "none", FALSE, "success")}
    /\ UNCHANGED <<listeners, behav, handles, unsubCalls, lastNotify, notifyCount, jobs,
                   drive, env, firestore, adapter, settled, opLog, overlapped, retLog,
                   pushLog, pullLog>>

(* google.accounts.oauth2.revoke reaches the server. *)
RevokeAnswered ==
    \E r \in pending :
        /\ r.k = "revoke"
        /\ jobs = <<>>
        /\ pending' = Refused(pending \ {r}, "revoked")
        /\ UNCHANGED <<ls, listeners, behav, handles, unsubCalls, lastNotify, notifyCount,
                       jobs, drive, gapi, env, firestore, adapter, settled, callLog, calls,
                       opLog, overlapped, retLog, pushLog, pullLog>>

(* expires_in seconds have passed since the token was issued: gapi still
   holds it (drive.ts 106-108 does not look at its age). *)
TokenExpires ==
    /\ gapi.token = "valid"
    /\ gapi' = [gapi EXCEPT !.token = "expired"]
    /\ pending' = Refused(pending, "expired")
    /\ UNCHANGED <<ls, listeners, behav, handles, unsubCalls, lastNotify, notifyCount,
                   jobs, drive, env, firestore, adapter, settled, callLog, calls,
                   opLog, overlapped, retLog, pushLog, pullLog>>

-----------------------------------------------------------------------------
(* The document-store variant of the storage service: part_006, firebase.ts *)

(* COLL_USERS, COLL_EVENTS, COLL_WISHLISTS, COLL_WISHLIST_ITEMS *)
NoDocs == [users |-> {}, events |-> {}, wishlists |-> {}, wishlist_items |-> {}]

Reads ==
    {[f |-> "getEvents", coll |-> "events"],
     [f |-> "getWishlists", coll |-> "wishlists"],
     [f |-> "getWishlistItems", coll |-> "wishlist_items"]}

Creates ==
    {[f |-> "createEvent", coll |-> "events"],
     [f |-> "createWishlist", coll |-> "wishlists"],
     [f |-> "createWishlistItem", coll |-> "wishlist_items"]}

Updates ==
    {[f |-> "updateEvent", coll |-> "events"],
     [f |-> "updateWishlistItem", coll |-> "wishlist_items"]}

Deletes ==
    {[f |-> "deleteEvent", coll |-> "events"],
     [f |-> "deleteWishlist", coll |-> "wishlists"],
     [f |-> "deleteWishlistItem", coll |-> "wishlist_items"]}

(* A UserConfig as the fields of a document. *)
UserConfig(username) == [username |-> username]

(* The wishlist a call names: the listId of an item or of a query. *)
ListIds(fn) == IF fn.coll = "wishlist_items" THEN Ids ELSE {MaxId}

(* The fields a call passes for a document. *)
Fields(fn, listId, payload) ==
    IF fn.coll = "wishlist_items"
    THEN [listId |-> listId, name |-> payload]
    ELSE [title |-> payload]

(* updateDoc: the fields given replace those of the document, the others stay *)
Patch(old, new) ==
    [k \in DOMAIN old \cup DOMAIN new |-> IF k \in DOMAIN new THEN new[k] ELSE old[k]]

(* What a finished call hands to its caller, and what it did on the way. *)
DocReturn(ctx, ret, remote, notified) ==
    [id |-> ctx.id, op |-> ctx.f, threw |-> FALSE, ret |-> <<ret>>,
     remote |-> remote, notified |-> notified]

DocThrow(ctx, remote) ==
    [id |-> ctx.id, op |-> ctx.f, threw |-> TRUE, ret |-> <<>>,
     remote |-> remote, notified |-> 0]

(* One synchronous stretch of a function of the variant: the requests
   awaited afterwards, the documents, notifyListeners() if it is called, and
   the calls that end in it. *)
DocStep(called, pend, docs, notify, entries) ==
    LET r == NotifyListeners(listeners, behav)
    IN  /\ jobs = <<>>
        /\ called => calls < MaxCalls
        /\ calls' = IF called THEN calls + 1 ELSE calls
        /\ pending' = pend
        /\ firestore' = [firestore EXCEPT !.docs = docs]
        /\ IF notify
           THEN /\ listeners' = r.ent
                /\ lastNotify' = [start |-> Range(listeners), invoked |-> r.invoked]
                /\ notifyCount' = notifyCount + 1
           ELSE UNCHANGED <<listeners, lastNotify, notifyCount>>
        /\ retLog' = retLog \cup entries
        /\ UNCHANGED <<ls, behav, handles, unsubCalls, jobs, drive, gapi, env, adapter,
                       settled, callLog, opLog, overlapped, pushLog, pullLog>>

DocContext(fn) == [owner |-> "doc", id |-> calls + 1, f |-> fn.f, coll |-> fn.coll]

(* A request of the call is answered. *)
Answered(r, k) == r \in pending /\ r.k = k

(* getEvents 75-88, getWishlists 115-128, getWishlistItems 152-166 *)
DocRead ==
    \E fn \in Reads : \E listId \in ListIds(fn) :
        LET ctx == DocContext(fn)
        IN  IF ~firestore.db
            THEN DocStep(TRUE, pending, firestore.docs, FALSE,
                         {DocReturn(ctx, {}, "none", 0)})
            ELSE DocStep(TRUE, pending \cup {[k |-> "getDocs", ctx |-> ctx,
                                               listId |-> listId]},
                         firestore.docs, FALSE, {})

GetDocsOk ==
    \E r \in pending :
        /\ Answered(r, "getDocs")
        /\ LET all == firestore.docs[r.ctx.coll]
               found == IF r.ctx.coll = "wishlist_items"
                        THEN {d \in all : d.data.listId = r.listId}
                        ELSE all
           IN  DocStep(FALSE, pending \ {r}, firestore.docs, FALSE,
                       {DocReturn(r.ctx, found, "ok", 0)})

GetDocsError ==
    \E r \in pending :
        /\ Answered(r, "getDocs")
        /\ DocStep(FALSE, pending \ {r}, firestore.docs, FALSE,
                   {DocReturn(r.ctx, {}, "failed", 0)})

(* getAuthInfo 47-65 *)
DocGetAuthInfo ==
    LET ctx == DocContext([f |-> "getAuthInfo", coll |-> "users"])
    IN  IF ~firestore.db
        THEN DocStep(TRUE, pending, firestore.docs, FALSE,
                     {DocReturn(ctx, UserConfig(INITIAL_CREDENTIALS), "none", 0)})
        ELSE DocStep(TRUE, pending \cup {[k |-> "getDoc", ctx |-> ctx]},
                     firestore.docs, FALSE, {})

GetDocOk ==
    \E r \in pending :
        /\ Answered(r, "getDoc")
        /\ IF firestore.docs.users # {}
           THEN DocStep(FALSE, pending \ {r}, firestore.docs, FALSE,
                        {DocReturn(r.ctx, (CHOOSE d \in firestore.docs.users : TRUE).data,
                                   "ok", 0)})
           ELSE DocStep(FALSE,
                        (pending \ {r}) \cup {[k |-> "setDoc", ctx |-> r.ctx,
                                               data |-> UserConfig(INITIAL_CREDENTIALS)]},
                        firestore.docs, FALSE, {})

GetDocError ==
    \E r \in pending :
        /\ Answered(r, "getDoc")
        /\ DocStep(FALSE, pending \ {r}, firestore.docs, FALSE,
                   {DocReturn(r.ctx, UserConfig(INITIAL_CREDENTIALS), "failed", 0)})

(* updateAuthInfo 67-71 *)
DocUpdateAuthInfo ==
    \E config \in AuthValues :
        LET ctx == DocContext([f |-> "updateAuthInfo", coll |-> "users"])
        IN  IF ~firestore.db
            THEN DocStep(TRUE, pending, firestore.docs, FALSE,
                         {DocReturn(ctx, "void", "none", 0)})
            ELSE DocStep(TRUE, pending \cup {[k |-> "setDoc", ctx |-> ctx,
                                               data |-> UserConfig(config)]},
                         firestore.docs, FALSE, {})

(* setDoc answers: getAuthInfo 58-59, updateAuthInfo 70-71 *)
SetDocOk ==
    \E r \in pending :
        /\ Answered(r, "setDoc")
        /\ DocStep(FALSE, pending \ {r},
                   [firestore.docs EXCEPT !.users = {[id |-> "auth_info", data |-> r.data]}],
                   FALSE,
                   {DocReturn(r.ctx,
                              IF r.ctx.f = "getAuthInfo" THEN UserConfig(INITIAL_CREDENTIALS) ELSE "void",
                              "ok", 0)})

SetDocError ==
    \E r \in pending :
        /\ Answered(r, "setDoc")
        /\ DocStep(FALSE, pending \ {r}, firestore.docs, FALSE,
                   {IF r.ctx.f = "getAuthInfo"
                    THEN DocReturn(r.ctx, UserConfig(INITIAL_CREDENTIALS), "failed", 0)
                    ELSE DocThrow(r.ctx, "failed")})

(* createEvent 90-93, createWishlist 130-137, createWishlistItem 168-176 *)
DocCreate ==
    \E fn \in Creates : \E listId \in ListIds(fn) :
        LET ctx == DocContext(fn)
        IN  IF ~firestore.db
            THEN DocStep(TRUE, pending, firestore.docs, FALSE, {DocThrow(ctx, "none")})
            ELSE DocStep(TRUE, pending \cup {[k |-> "addDoc", ctx |-> ctx,
                                               data |-> Fields(fn, listId, NewPayload)]},
                         firestore.docs, FALSE, {})

(* createEvent 93-96, createWishlist 137-140, createWishlistItem 176-179:
   the store assigns the id of the new document *)
AddDocOk ==
    \E r \in pending :
        /\ Answered(r, "addDoc")
        /\ \E id \in Ids \ {d.id : d \in firestore.docs[r.ctx.coll]} :
             LET new == [id |-> id, data |-> r.data]
             IN  DocStep(FALSE, pending \ {r},
                         [firestore.docs EXCEPT ![r.ctx.coll] = @ \cup {new}],
                         TRUE, {DocReturn(r.ctx, new, "ok", 1)})

(* Not the code: a create that notifies although addDoc rejected. *)
AddDocErrorNotifies ==
    \E r \in pending :
        /\ Answered(r, "addDoc")
        /\ DocStep(FALSE, pending \ {r}, firestore.docs, TRUE, {DocThrow(r.ctx, "failed")})

AddDocError ==
    \E r \in pending :
        /\ Answered(r, "addDoc")
        /\ DocStep(FALSE, pending \ {r}, firestore.docs, FALSE, {DocThrow(r.ctx, "failed")})

(* updateEvent 99-103, updateWishlistItem 182-186 *)
DocUpdate ==
    \E fn \in Updates : \E id \in Ids : \E listId \in ListIds(fn) :
        LET ctx == DocContext(fn)
        IN  IF ~firestore.db
            THEN DocStep(TRUE, pending, firestore.docs, FALSE,
                         {DocReturn(ctx, "void", "none", 0)})
            ELSE DocStep(TRUE, pending \cup {[k |-> "updateDoc", ctx |-> ctx, docId |-> id,
                                               data |-> Fields(fn, listId, EditedPayload)]},
                         firestore.docs, FALSE, {})

(* updateEvent 103-105, updateWishlistItem 186-188: updateDoc patches a
   document that exists and rejects otherwise *)
UpdateDocOk ==
    \E r \in pending :
        /\ Answered(r, "updateDoc")
        /\ \E d \in firestore.docs[r.ctx.coll] :
             /\ d.id = r.docId
             /\ DocStep(FALSE, pending \ {r},
                        [firestore.docs EXCEPT ![r.ctx.coll] =
                            (@ \ {d}) \cup {[d EXCEPT !.data = Patch(d.data, r.data)]}],
                        TRUE, {DocReturn(r.ctx, "void", "ok", 1)})

UpdateDocError ==
    \E r \in pending :
        /\ Answered(r, "updateDoc")
        /\ DocStep(FALSE, pending \ {r}, firestore.docs, FALSE, {DocThrow(r.ctx, "failed")})

(* deleteEvent 107-109, deleteWishlist 143-146, deleteWishlistItem 190-192 *)
DocDelete ==
    \E fn \in Deletes : \E id \in Ids :
        LET ctx == DocContext(fn)
        IN  IF ~firestore.db
            THEN DocStep(TRUE, pending, firestore.docs, FALSE,
                         {DocReturn(ctx, "void", "none", 0)})
            ELSE DocStep(TRUE, pending \cup {[k |-> "deleteDoc", ctx |-> ctx, docId |-> id]},
                         firestore.docs, FALSE, {})

(* deleteEvent 109-110, deleteWishlist 146-147, deleteWishlistItem 192-193 *)
DeleteDocOk ==
    \E r \in pending :
        /\ Answered(r, "deleteDoc")
        /\ DocStep(FALSE, pending \ {r},
                   [firestore.docs EXCEPT ![r.ctx.coll] = {d \in @ : d.id # r.docId}],
                   TRUE, {DocReturn(r.ctx, "void", "ok", 1)})

DeleteDocError ==
    \E r \in pending :
        /\ Answered(r, "deleteDoc")
        /\ DocStep(FALSE, pending \ {r}, firestore.docs, FALSE, {DocThrow(r.ctx, "failed")})

-----------------------------------------------------------------------------
(* Initial states *)

(* drive.ts 8-10 at module load; after one initializeGoogleServices resolved *)
Fresh == [google |-> FALSE, tokenClient |-> FALSE, gapiInited |-> FALSE,
          gisInited |-> FALSE]

Ready == [google |-> TRUE, tokenClient |-> TRUE, gapiInited |-> TRUE,
          gisInited |-> TRUE]

Passive == [l \in Listeners |-> [do |-> "none", x |-> Empty]]

Idle ==
    /\ listeners = <<>>
    /\ handles = {}
    /\ unsubCalls = [l \in Listeners |-> 0]
    /\ lastNotify = [start |-> {}, invoked |-> <<>>]
    /\ notifyCount = 0
    /\ jobs = <<>>
    /\ pending = {}
    /\ env = [clientId |-> "", apiKey |-> ""]
    /\ calls = 0
    /\ opLog = <<>>
    /\ overlapped = FALSE
    /\ retLog = {}
    /\ pushLog = {}
    /\ pullLog = {}
    /\ callLog = {}
    /\ settled = {}

(* The local-storage variant is the one loaded: no document store. *)
Quiet == Idle /\ firestore = [db |-> FALSE, docs |-> NoDocs]

(* A first run: nothing stored, nothing remote, never signed in. *)
InitStore ==
    /\ Quiet
    /\ behav = Passive
    /\ ls = [auth |-> NoItem, events |-> NoItem, wishlist |-> NoItem, cfg |-> NoItem]
    /\ drive = <<>>
    /\ gapi = [loaded |-> TRUE, token |-> "null"]
    /\ adapter = Fresh

(* Signed in, with connected = true stored: either the first pull has not run
   yet (no handle, no remote file) or it has (the file it created and the
   tables it hydrated from it). *)
InitSync ==
    /\ Quiet
    /\ behav = Passive
    /\ gapi = [loaded |-> TRUE, token |-> "valid"]
    /\ adapter = Ready
    /\ \/ /\ ls = [auth |-> NoItem, events |-> NoItem, wishlist |-> NoItem,
                   cfg |-> Stringify([clientId |-> "id", apiKey |-> "key",
                                      connected |-> TRUE, fileId |-> NoFile])]
          /\ drive = <<>>
       \/ /\ ls = [auth |-> Stringify(INITIAL_CREDENTIALS),
                   events |-> Stringify(<<>>), wishlist |-> Stringify(<<>>),
                   cfg |-> Stringify([clientId |-> "id", apiKey |-> "key",
                                      connected |-> TRUE, fileId |-> 1])]
          /\ drive = <<[id |-> 1,
                        content |-> Stringify([auth |-> INITIAL_CREDENTIALS,
                                               events |-> <<>>,
                                               wishlist |-> <<>>])]>>

Mutate ==
    \/ CallCreateEvent
    \/ CreateEvent
    \/ CallUpdateEvent
    \/ UpdateEvent
    \/ CallDeleteEvent
    \/ DeleteEvent
    \/ CallCreateWishlistItem
    \/ CreateWishlistItem
    \/ CallUpdateWishlistItem
    \/ UpdateWishlistItem
    \/ CallDeleteWishlistItem
    \/ DeleteWishlistItem
    \/ UpdateAuthInfo

Push ==
    \/ GfdAuth
    \/ GfdEvents
    \/ GfdWishlist
    \/ StdData
    \/ PatchOk
    \/ PatchHttpError
    \/ PatchNetworkError

Pull ==
    \/ CallSyncFromDrive
    \/ SfdData
    \/ ListOk
    \/ ListError
    \/ IdfList
    \/ PostOk
    \/ PostHttpError
    \/ PostNetworkError
    \/ SfdFile
    \/ GetOk
    \/ GetError
    \/ SfdGet
    \/ SfdCatch

(* The observers of a page, each with what its callback does. *)
InitBus ==
    /\ Quiet
    /\ behav \in [Listeners -> Behaviours]
    /\ ls = [auth |-> NoItem, events |-> NoItem, wishlist |-> NoItem, cfg |-> NoItem]
    /\ drive = <<>>
    /\ gapi = [loaded |-> TRUE, token |-> "null"]
    /\ adapter = Fresh

(* The page is loading (first run, or a reload of a page that was connected),
   or App is mounted again in a page that holds a session. *)
InitStartup ==
    \/ /\ Quiet
       /\ behav = Passive
       /\ gapi = [loaded |-> FALSE, token |-> "null"]
       /\ adapter = Fresh
       /\ \/ /\ ls = [auth |-> NoItem, events |-> NoItem, wishlist |-> NoItem,
                      cfg |-> NoItem]
             /\ drive = <<>>
          \/ /\ ls = [auth |-> Stringify(INITIAL_CREDENTIALS),
                      events |-> Stringify(<<>>), wishlist |-> Stringify(<<>>),
                      cfg |-> Stringify([clientId |-> "id", apiKey |-> "key",
                                         connected |-> TRUE, fileId |-> 1])]
             /\ drive = <<[id |-> 1,
                           content |-> Stringify([auth |-> "u1",
                                                  events |-> <<>>,
                                                  wishlist |-> <<>>])]>>
    \/ InitSync

Bus ==
    \/ \E l \in Listeners : Subscribe(l)
    \/ \E l \in Listeners : Unsubscribe(l)

Services ==
    \/ CheckGapiTimer
    \/ CheckGisTimer
    \/ GapiLoad
    \/ ClientInitOk
    \/ ClientInitError
    \/ GapiScriptLoads
    \/ GisScriptLoads
    \/ ConsentGranted
    \/ ConsentDenied

Connect ==
    \/ CallHandleConnectDrive
    \/ ConnectServices
    \/ ConnectSignedIn
    \/ ConnectSynced

Startup ==
    \/ CallInitializeStorage
    \/ InitServices
    \/ InitRestored
    \/ InitSynced

PullSteps ==
    \/ GfdAuth
    \/ GfdEvents
    \/ GfdWishlist
    \/ SfdData
    \/ ListOk
    \/ ListError
    \/ IdfList
    \/ PostOk
    \/ PostHttpError
    \/ PostNetworkError
    \/ SfdFile
    \/ GetOk
    \/ GetError
    \/ SfdGet
    \/ SfdCatch

(* The same account opened in a browser whose localStorage is empty, once
   handleConnectDrive has stored connected = true there: Settings.tsx 73-78 *)
OpenFreshStore ==
    /\ jobs = <<>>
    /\ pending = {}
    /\ drive # <<>>
    /\ Tables(ls) # FreshData
    /\ ls' = [auth |-> NoItem, events |-> NoItem, wishlist |-> NoItem,
              cfg |-> Stringify([clientId |-> "id", apiKey |-> "key",
                                 connected |-> TRUE, fileId |-> NoFile])]
    /\ UNCHANGED <<listeners, behav, handles, unsubCalls, lastNotify, notifyCount,
                   jobs, pending, drive, gapi, env, firestore, adapter, settled, callLog,
                   calls, opLog, overlapped, retLog, pushLog, pullLog>>

NextStore == Mutate

NextRoundTrip ==
    \/ UpdateAuthInfoWithoutPassword
    \/ CallCreateEvent
    \/ CreateEvent
    \/ Push
    \/ Pull
    \/ OpenFreshStore

SpecRoundTrip == InitSync /\ [][NextRoundTrip]_vars

NextBus == Bus \/ CallCreateEvent \/ CreateEvent

SpecBus == InitBus /\ [][NextBus]_vars

NextStartup == Services \/ Connect \/ Startup \/ PullSteps

SpecStartup == InitStartup /\ [][NextStartup]_vars

SpecStore == InitStore /\ [][NextStore]_vars

(* A session that ends: mutations, their pushes and pulls, while the token
   expires or the user disconnects. *)
NextSession ==
    \/ CallCreateEvent
    \/ CreateEvent
    \/ Push
    \/ Pull
    \/ HandleDisconnectDrive
    \/ RevokeAnswered
    \/ TokenExpires

SpecSession == InitSync /\ [][NextSession]_vars

(* A store that has just been connected (Settings.tsx 73-78), while the
   account holds no data file, one written by this version, or one written
   under the other AppDatabase schema (types.ts 40-46), which has no wishlist
   key. *)
InitSchema ==
    /\ Quiet
    /\ behav = Passive
    /\ gapi = [loaded |-> TRUE, token |-> "valid"]
    /\ adapter = Ready
    /\ ls = [auth |-> NoItem, events |-> NoItem, wishlist |-> NoItem,
             cfg |-> Stringify([clientId |-> "id", apiKey |-> "key",
                                connected |-> TRUE, fileId |-> NoFile])]
    /\ drive \in {<<>>,
                  <<[id |-> 1, content |-> Stringify([auth |-> "u1", events |-> <<>>,
                                                      wishlist |-> <<>>])]>>,
                  <<[id |-> 1, content |-> Stringify([auth |-> "u1", events |-> <<>>,
                                                      wishlists |-> <<>>,
                                                      wishlistItems |-> <<>>])]>>}

NextSchema ==
    \/ Pull
    \/ Push
    \/ CallCreateEvent
    \/ CreateEvent
    \/ CallCreateWishlistItem
    \/ CreateWishlistItem
    \/ CallUpdateWishlistItem
    \/ UpdateWishlistItem
    \/ CallDeleteWishlistItem
    \/ DeleteWishlistItem
    \/ CallGetAuthInfo
    \/ CallGetEvents
    \/ CallGetWishlist

SpecSchema == InitSchema /\ [][NextSchema]_vars

(* Connections made and ended: the page loads, the user connects and
   disconnects. *)
NextConnection == NextStartup \/ HandleDisconnectDrive \/ RevokeAnswered

SpecConnection == InitStartup /\ [][NextConnection]_vars

(* The document-store variant is the one loaded, its db defined or not
   (firebase.ts 22-36), and the collections are empty. *)
InitDocs ==
    /\ Idle
    /\ behav = Passive
    /\ ls = [auth |-> NoItem, events |-> NoItem, wishlist |-> NoItem, cfg |-> NoItem]
    /\ drive = <<>>
    /\ gapi = [loaded |-> FALSE, token |-> "null"]
    /\ adapter = Fresh
    /\ firestore \in {[db |-> b, docs |-> NoDocs] : b \in BOOLEAN}

NextDocs ==
    \/ \E l \in Listeners : Subscribe(l)
    \/ DocRead
    \/ GetDocsOk
    \/ GetDocsError
    \/ DocGetAuthInfo
    \/ GetDocOk
    \/ GetDocError
    \/ DocUpdateAuthInfo
    \/ SetDocOk
    \/ SetDocError
    \/ DocCreate
    \/ AddDocOk
    \/ AddDocError
    \/ DocUpdate
    \/ UpdateDocOk
    \/ UpdateDocError
    \/ DocDelete
    \/ DeleteDocOk
    \/ DeleteDocError

SpecDocs == InitDocs /\ [][NextDocs]_vars

Init == InitSync

Next == Mutate \/ Push \/ Pull

Spec == Init /\ [][Next]_vars

-----------------------------------------------------------------------------
(* The reference table of the replay property: create appends, update
   replaces the record with the same id in place, delete removes the record
   with that id. *)

RECURSIVE Replay(_, _, _)
Replay(log, t, table) ==
    IF log = <<>> THEN table
    ELSE LET e == Head(log)
             next ==
                 CASE e.t # t -> table
                   [] e.op = "create" -> table \o <<e.rec>>
                   [] e.op = "update" ->
                        [i \in DOMAIN table |->
                            IF table[i].id = e.rec.id THEN e.rec ELSE table[i]]
                   [] OTHER ->
                        SelectSeq(table, LAMBDA x : x.id # e.rec.id)
         IN  Replay(Tail(log), t, next)

(* The generator never returned the same identifier twice for one table. *)
DistinctIds ==
    \A i, k \in DOMAIN opLog :
        (/\ i # k
         /\ opLog[i].op = "create"
         /\ opLog[k].op = "create"
         /\ opLog[i].t = opLog[k].t) => opLog[i].rec.id # opLog[k].rec.id

Replayed ==
    /\ GetEvents(ls) = Replay(opLog, "events", <<>>)
    /\ GetWishlist(ls) = Replay(opLog, "wishlist", <<>>)

(* C1: whatever the interleaving of the mutations started on a table, once
   they have all returned the table reflects every one of them: it is the
   table obtained by applying them one at a time in the order in which they
   took effect (no lost update). *)
C1_NoLostUpdate == (jobs = <<>> /\ DistinctIds) => Replayed

(* C3: after create/update/delete operations applied one after another to
   the events table or the wishlist table, the table equals the replay of
   the same operations, in the same order, against an empty table. *)
C3_SequentialReplay == (~overlapped /\ DistinctIds) => Replayed

C3_Witness ==
    /\ ~overlapped
    /\ DistinctIds
    /\ jobs = <<>>
    /\ Len(opLog) = 3
    /\ \E i \in Ids :
        /\ opLog[1] = [t |-> "wishlist", op |-> "create",
                       rec |-> [id |-> i, v |-> NewPayload]]
        /\ opLog[2] = [t |-> "wishlist", op |-> "update",
                       rec |-> [id |-> i, v |-> EditedPayload]]
        /\ opLog[3].op = "create"
        /\ opLog[3].t = "wishlist"
        /\ GetWishlist(ls)[1] = opLog[2].rec
        /\ Len(GetWishlist(ls)) = 2

(* C9: every mutating operation that has returned after a durable write
   invoked the notification exactly once. *)
C9_NotifyOncePerMutation == \A e \in retLog : e.wrote => e.notified = 1

(* C2: every Snapshot handed to the remote persist operation equals what
   the three tables held at one single instant of the snapshot's reads. *)
C2_SnapshotIsAtomic ==
    /\ \A r \in pending : r.k = "PATCH" => r.data \in r.seen
    /\ \A e \in pushLog : e.atomic

(* C8: a push that starts after a push has failed, runs from its start to
   its success with no other push or pull in flight, and succeeds, leaves in
   the remote document the complete content the Local Store held at the
   instant of its snapshot. *)
C8_NextPushCarriesLocalStore ==
    \A e \in pushLog : (e.landed /\ e.alone /\ e.afterFailure) => e.carried

C8_Witness ==
    \E e, f \in pushLog :
        /\ e.landed /\ e.alone /\ e.afterFailure /\ e.carried
        /\ ~f.landed
        /\ f.id < e.id
        /\ \E r \in retLog :
              /\ r.id = f.id
              /\ r.ret # <<>>
              /\ r.ret[1] \in Range(e.data.events) \cup Range(e.data.wishlist)
        /\ \E i \in DOMAIN drive : Parse(drive[i].content) = e.data

(* C4: when a pull completes successfully the three tables equal the fetched
   Snapshot's, whatever they held before. *)
C4_PullOverwrites ==
    \A e \in pullLog : e.result = "resolved" => e.after = e.fetched

C4_Witness ==
    \E e \in pullLog :
        /\ e.result = "resolved"
        /\ e.before # e.fetched
        /\ e.before # e.start
        /\ Tables(ls) = e.fetched

(* C5 as claimed: a pull that fails fires no notification and leaves the
   three tables and the sync-config record as they were. *)
C5_FailedPullLeavesStoreAndConfig ==
    \A e \in pullLog :
        e.result = "rejected" =>
            ~e.wroteTables /\ e.notified = 0 /\ ~e.wroteConfig

(* C5 as amended: a pull that fails rejects with the error of the step that
   failed, fires no notification and has written none of the three tables;
   it has not written the sync-config record either unless the step that
   failed is the fetch, which follows the storing of the file handle. *)
C5_FailedPullLeavesTables ==
    \A e \in pullLog :
        e.result = "rejected" =>
            /\ ~e.wroteTables
            /\ e.notified = 0
            /\ e.err \in {"list", "create", "get"}
            /\ e.err # "get" => ~e.wroteConfig

C5_Witness ==
    \E e \in pullLog :
        /\ e.result = "rejected"
        /\ e.err = "get"
        /\ e.wroteConfig
        /\ Tables(ls) # e.start

-----------------------------------------------------------------------------
(* C6 as claimed: whenever the pull started by handleConnectDrive or by
   initializeStorage has failed, the error reached the code that awaited the
   call (its catch block ran), so that the interface can report it. *)
C6_PullFailureSurfaces ==
    \A e \in callLog : e.pull = "rejected" => e.threw

Returned(n) == \E e \in retLog : e.id = n

(* C7: a push is fire-and-forget.  The mutation that triggered a push has
   returned its value before any request of the push is sent or answered, no
   step of a push, whatever its outcome, changes localStorage or what a
   mutation has returned, and no mutation returns a failure. *)
C7_PushIsFireAndForget ==
    [][/\ \A r \in pending : r.k = "PATCH" => Returned(r.ctx.id)
       /\ \A e \in pushLog' \ pushLog : Returned(e.id)
       /\ Push => (ls' = ls /\ retLog' = retLog)
       /\ retLog \subseteq retLog']_vars

C7_Witness ==
    \E e \in pushLog, r \in retLog :
        /\ ~e.resolved
        /\ r.id = e.id
        /\ r.op = "createEvent"
        /\ r.ret # <<>>
        /\ GetEvents(ls) = r.ret
        /\ \E x \in pending : x.k = "PATCH"

(* C10 as claimed: the last notification invoked exactly the observers that
   were registered when it started, each exactly once. *)
C10_NotifyUsesStableCopy ==
    /\ Range(lastNotify.invoked) = lastNotify.start
    /\ Len(lastNotify.invoked) = Cardinality(lastNotify.start)

-----------------------------------------------------------------------------
(* C11: unsubscribe is idempotent.  Every call of an unsubscribe, the first
   and the later ones, leaves the observer unregistered and the other
   observers registered as they were, in their order; and a notification
   invokes no observer that was unregistered when it started, unless an
   observer it invoked subscribed it again. *)
C11_UnsubscribeIdempotent ==
    [][/\ \A l \in Listeners :
            Unsubscribe(l) =>
                listeners' = SelectSeq(listeners, LAMBDA x : x # l)
       /\ notifyCount' # notifyCount =>
            \A l \in Range(lastNotify'.invoked) :
                \/ l \in Range(listeners)
                \/ \E m \in Range(lastNotify'.invoked) :
                      behav[m] = [do |-> "sub", x |-> l]]_vars

C11_Witness ==
    \E l, m \in Listeners :
        /\ l # m
        /\ unsubCalls[l] = 2
        /\ l \notin Range(listeners)
        /\ m \in Range(listeners)
        /\ behav[m].do = "none"
        /\ notifyCount > 0
        /\ lastNotify = [start |-> {m}, invoked |-> <<m>>]

-----------------------------------------------------------------------------
(* C12 as claimed: when the last operation applied to a table, with no other
   mutation overlapping, is a put (updateEvent, updateWishlistItem) of a
   record, the table holds that record afterwards: inserted when its id was
   absent, replacing the previous record otherwise. *)
C12_PutInsertsOrReplaces ==
    (~overlapped /\ jobs = <<>> /\ opLog # <<>> /\ opLog[Len(opLog)].op = "update")
        => opLog[Len(opLog)].rec \in Range(GetTable(ls, opLog[Len(opLog)].t))

-----------------------------------------------------------------------------
UniqueIds(list) ==
    \A i, k \in DOMAIN list : i # k => list[i].id # list[k].id

(* C13 as claimed: in every reachable state no two records of the events
   table, and no two records of the wishlist table, share an identifier,
   whatever identifiers generateId returns. *)
C13_IdentifiersUnique ==
    UniqueIds(GetEvents(ls)) /\ UniqueIds(GetWishlist(ls))

-----------------------------------------------------------------------------
(* C14: persist and fetch round-trip losslessly.  The text every persist
   (PATCH of a push, POST of a creation) sends parses back to the Snapshot it
   was given, and a pull that resolves on a fresh connected Local Store
   leaves the tables equal to the Snapshot it fetched, which is the Snapshot
   of a push that succeeded, the Snapshot an earlier pull created the file
   with, or the content the file had at the start. *)
C14_RoundTrip ==
    /\ \A r \in pending : r.k \in {"PATCH", "POST"} => Parse(r.content) = r.data
    /\ \A e \in pullLog :
          (e.result = "resolved" /\ e.start = FreshData /\ e.before = FreshData)
              => /\ e.after = e.fetched
                 /\ \/ e.fetched = FreshData
                    \/ \E p \in pushLog : p.landed /\ p.data = e.fetched
                    \/ \E q \in pullLog : q.id < e.id /\ q.start = e.fetched

C14_Witness ==
    \E e \in pullLog, p \in pushLog :
        /\ e.result = "resolved"
        /\ e.start = FreshData
        /\ e.before = FreshData
        /\ p.landed
        /\ p.id < e.id
        /\ p.data = e.fetched
        /\ p.data.auth = "u2"
        /\ p.data.events # <<>>
        /\ Tables(ls) = p.data

-----------------------------------------------------------------------------
(* The pulls that found no remote file, created one and resolved. *)
Seeded == {e \in pullLog : e.result = "resolved" /\ e.created # NoFile}

(* C15 as stated: a connected pull that finds no remote data file creates
   one holding the Snapshot it took at its start, records the handle of the
   file in the SyncConfig, resolves, and leaves the tables of the Local Store
   equal to what they were when it started. *)
C15_FirstPullLeavesStore ==
    \A e \in Seeded : e.fetched = e.start /\ e.after = e.start

(* C15, amended: a connected pull that finds no remote data file is not an
   error.  When files.list answers with no file the pull sends the creation
   of a file holding the Snapshot it took at its start; when the creation
   has answered, the pull stores the handle of the new file in the
   SyncConfig; and when the pull resolves, the tables of the Local Store
   equal the Snapshot it fetched from the new file, which is the Snapshot it
   took at its start or the Snapshot of a push that landed meanwhile. *)
C15_FirstPullSeedsRemoteFile ==
    /\ [][/\ (IdfList /\ Head(jobs).first = NoFile)
               => \E r \in pending' \ pending :
                    /\ r.k = "POST"
                    /\ r.ctx = Head(jobs).ctx
                    /\ Parse(r.content) = Head(jobs).data
          /\ (SfdFile /\ Head(jobs).ctx.created # NoFile)
               => GetDriveConfig(ls').fileId = Head(jobs).ctx.created]_vars
    /\ [](\A e \in Seeded :
            /\ e.after = e.fetched
            /\ \/ e.fetched = e.start
               \/ \E p \in pushLog : p.landed /\ p.data = e.fetched)

C15_Witness ==
    \E e \in Seeded :
        /\ e.start.events # <<>>
        /\ HasFile(drive, e.created)
        /\ Parse(drive[FileContent(drive, e.created)].content) = e.start
        /\ GetDriveConfig(ls).fileId = e.created
        /\ Tables(ls) = e.start

-----------------------------------------------------------------------------
(* C16: once a pull has stored a file handle in the SyncConfig, the
   operations that start afterwards use that handle.  A push persists to the
   handle it read from the SyncConfig, and a pull that read a handle from the
   SyncConfig sends nothing but the fetch of that very file: it neither
   lists the files nor creates one. *)
C16_CachedHandleReused ==
    \A r \in pending :
        /\ r.ctx.owner = "push" => r.k = "PATCH" /\ r.fileId = r.ctx.config.fileId
        /\ (r.ctx.owner = "pull" /\ r.ctx.config.fileId # NoFile)
               => r.k = "GET" /\ r.fileId = r.ctx.config.fileId

-----------------------------------------------------------------------------
(* C17: the stored SyncConfig turns from not connected to connected only
   in a step by which a pull started by handleConnectDrive, after its
   sign-in, has resolved: connected is not true while that first pull is
   still in flight. *)
C17_ConnectedOnlyAfterFirstPull ==
    [][(~GetDriveConfig(ls).connected /\ GetDriveConfig(ls').connected)
          => \E e \in pullLog' : e.caller = "connect" /\ e.result = "resolved"]_vars

-----------------------------------------------------------------------------
(* The step in which an authentication error reaches one of the two callers:
   consent denied while connecting, the silent restore answering false at
   startup, or the pull either of them awaited rejecting. *)
AuthFailed ==
    /\ jobs # <<>>
    /\ Head(jobs).k \in {"signedIn", "connect", "restored", "init"}
    /\ ~Head(jobs).ok
    /\ ConnectSignedIn \/ ConnectSynced \/ InitRestored \/ InitSynced

(* C18: after an authentication error on any path the error is surfaced to
   the caller, the stored SyncConfig is not connected, and nothing is
   retried: no request is sent and no job is queued. *)
C18_AuthErrorRollsBack ==
    [][AuthFailed
          => /\ \E e \in callLog' \ callLog : e.threw
             /\ ~GetDriveConfig(ls').connected
             /\ pending' = pending
             /\ jobs' = Tail(jobs)]_vars

-----------------------------------------------------------------------------
(* C19: in the document-store variant, when the backend was never
   configured, no call throws: a read returns the default credentials or an
   empty sequence, a write returns normally, and no call sends a request,
   changes a document or notifies. *)
C19_UnconfiguredFailsFast ==
    ~firestore.db
        => /\ pending = {}
           /\ firestore.docs = NoDocs
           /\ notifyCount = 0
           /\ \A e \in retLog :
                /\ ~e.threw
                /\ e.remote = "none"
                /\ e.op = "getAuthInfo" => e.ret = <<UserConfig(INITIAL_CREDENTIALS)>>
                /\ e.op \in {fn.f : fn \in Reads} => e.ret = <<{}>>

-----------------------------------------------------------------------------
(* The calls that create, update or delete a record. *)
Crud == {e \in retLog : e.op \in {fn.f : fn \in Creates \cup Updates \cup Deletes}}

(* C20: in the document-store variant a create, update or delete fires the
   Subscription Bus exactly once, and only after its remote operation has
   succeeded: every run of notifyListeners is in the step that follows an
   addDoc, updateDoc or deleteDoc that was answered with success, with its
   effect on the documents done; a call whose remote operation failed has
   fired nothing and has thrown. *)
C20_NotifyOnceAfterRemoteSuccess ==
    /\ [][notifyCount' # notifyCount
            => /\ notifyCount' = notifyCount + 1
               /\ \E r \in pending \ pending' : \E e \in retLog' \ retLog :
                    /\ r.k \in {"addDoc", "updateDoc", "deleteDoc"}
                    /\ e.id = r.ctx.id
                    /\ e.remote = "ok"
                    /\ r.k = "addDoc" => e.ret[1] \in firestore'.docs[r.ctx.coll]
                    /\ r.k = "updateDoc"
                         => \E d \in firestore'.docs[r.ctx.coll] :
                              /\ d.id = r.docId
                              /\ \A k \in DOMAIN r.data : d.data[k] = r.data[k]
                    /\ r.k = "deleteDoc"
                         => \A d \in firestore'.docs[r.ctx.coll] : d.id # r.docId]_vars
    /\ [](\A e \in Crud :
            /\ e.notified = (IF e.remote = "ok" THEN 1 ELSE 0)
            /\ e.remote = "failed" => e.threw)
    /\ [](notifyCount = Cardinality({e \in Crud : e.remote = "ok"}))

C20_Witness ==
    \E e, f \in Crud :
        /\ e.op = "createEvent"
        /\ e.remote = "ok"
        /\ e.notified = 1
        /\ f.op = "updateEvent"
        /\ f.remote = "failed"
        /\ f.threw
        /\ e.id < f.id
        /\ notifyCount = 1
        /\ lastNotify.invoked # <<>>

-----------------------------------------------------------------------------
(* The disconnects that have completed. *)
Disconnects == {e \in callLog : e.path = "disconnect"}

(* The requests to the remote backend that it would serve. *)
Accepted == {r \in pending : r.k \in {"LIST", "POST", "GET", "PATCH"} /\ r.bearer = "valid"}

(* C21: after a disconnect has completed the access credential is cleared
   and, as long as nobody signs in again, no fetch or persist issued from
   then on reaches the remote backend as a request it accepts: the requests
   it can still serve were issued before the disconnect, and a mutation
   performed after it changes the Local Store only, having no request
   that could write the remote document. *)
C21_NoRemoteAccessAfterSignOut ==
    /\ [](Disconnects # {} => gapi.token \in SignedOutTokens)
    /\ [](\A d \in Disconnects : \A r \in Accepted : r.ctx.id < d.id)
    /\ [][\A d \in Disconnects :
             /\ Accepted' \subseteq Accepted
             /\ drive' # drive => \E r \in Accepted \ Accepted' : r.ctx.id < d.id
             /\ \A e \in retLog' \ retLog : e.id > d.id => drive' = drive]_vars

C21_Witness ==
    \E d \in Disconnects : \E e \in retLog :
        /\ e.id > d.id
        /\ e.op = "createEvent"
        /\ e.wrote
        /\ GetEvents(ls) # <<>>
        /\ jobs = <<>>
        /\ pending = {}
        /\ \A i \in DOMAIN drive : Parse(drive[i].content).events = <<>>

-----------------------------------------------------------------------------
(* C22: a persist that reaches the backend with an expired access
   credential fails with an authentication error: the push ends in its
   failure outcome, not reported as synced, and the remote document is left
   unchanged. *)
C22_ExpiredPersistFails ==
    \A e \in pushLog : e.bearer = "expired" => ~e.resolved /\ ~e.landed

-----------------------------------------------------------------------------
(* C23: last network response wins.  Whenever the write of a push lands,
   the remote document becomes the Snapshot that push carries, whichever
   pushes were started or have landed before; so with two pushes in flight
   the remote ends with the Snapshot of the one that lands last. *)
C23_LastResponseWins ==
    [][\A e \in pushLog' \ pushLog : \A r \in pending \ pending' :
          (e.landed /\ r.k = "PATCH" /\ r.ctx.id = e.id)
              => /\ HasFile(drive', r.fileId)
                 /\ Parse(drive'[FileContent(drive', r.fileId)].content) = e.data]_vars

(* Both pushes have completed and the remote holds the stale Snapshot of the
   one started first. *)
C23_Witness ==
    \E e, f \in pushLog :
        /\ e.id < f.id
        /\ e.landed /\ f.landed
        /\ ~e.alone /\ ~f.alone
        /\ e.data # f.data
        /\ jobs = <<>>
        /\ pending = {}
        /\ Len(drive) = 1
        /\ Parse(drive[1].content) = e.data
        /\ Tables(ls) = f.data

-----------------------------------------------------------------------------
(* The steps of initializeGoogleServices that call n still waits for. *)
ReadinessSteps(n, tasks) ==
    {r \in tasks : r.k \in {"checkGapi", "gapi.load", "client.init", "checkGis"}
                   /\ r.ctx.id = n}

(* C24: every call of initializeGoogleServices, a second or later one
   included, resolves only after both readiness steps have completed for
   that call: when its promise resolves, its own gapi.client.init has
   answered and its own token client exists, and both libraries are
   loaded. *)
C24_ResolvesWhenBothReady ==
    [][\A i \in DOMAIN jobs' :
          (jobs'[i].k = "services" /\ jobs'[i].ok /\ jobs'[i].ctx.id \in settled' \ settled)
              => /\ ReadinessSteps(jobs'[i].ctx.id, pending') = {}
                 /\ gapi'.loaded
                 /\ adapter'.google
                 /\ adapter'.tokenClient]_vars

-----------------------------------------------------------------------------
(* The calls of initializeStorage whose pull has started. *)
StartupPulls(q, tasks, log) ==
    {j.ctx.id : j \in {x \in Range(q) : x.ctx.owner = "pull" /\ x.ctx.caller = "init"}}
        \cup {r.ctx.id : r \in {x \in tasks : x.ctx.owner = "pull" /\ x.ctx.caller = "init"}}
        \cup {e.id : e \in {x \in log : x.caller = "init"}}

(* The job at the head of the queue runs in this step. *)
Resumes == jobs # <<>> /\ (jobs' = <<>> \/ Head(jobs') # Head(jobs))

(* C25: initializeStorage starts a pull exactly when the configuration it
   read holds both credentials and connected = true, initializeGoogleServices
   resolved and trySilentSignIn reported true; its own steps issue no fetch,
   leave the tables alone and notify nobody; the silent restore opens no
   consent prompt and always reports a boolean. *)
C25_StartupPullsOnlyWhenRestored ==
    /\ [](\A i \in DOMAIN jobs :
             jobs[i].k = "restored"
                 => /\ jobs[i].ctx.config.clientId # ""
                    /\ jobs[i].ctx.config.apiKey # ""
                    /\ jobs[i].ctx.config.connected
                    /\ jobs[i].ok \in BOOLEAN)
    /\ [](\A r \in pending :
             r.ctx.caller = "init"
                 => /\ r.k # "consent"
                    /\ r.k \in {"LIST", "POST", "GET", "PATCH"} => r.ctx.owner = "pull")
    /\ [][/\ \A i \in DOMAIN jobs' :
                (jobs'[i].k = "restored" /\ jobs'[i] \notin Range(jobs))
                    => /\ Running("services")
                       /\ Head(jobs).ok
                       /\ Head(jobs).ctx = jobs'[i].ctx
                       /\ jobs'[i].ok = TrySilentSignIn
                       /\ pending' = pending
          /\ \A n \in 1..MaxStartupCalls :
                n \in StartupPulls(jobs', pending', pullLog') \ StartupPulls(jobs, pending, pullLog)
                    <=> /\ Running("restored")
                        /\ Resumes
                        /\ Head(jobs).ctx.id = n
                        /\ Head(jobs).ok
          /\ ((Resumes /\ Head(jobs).ctx.owner = "init") \/ calls' # calls)
                => /\ Tables(ls') = Tables(ls)
                   /\ notifyCount' = notifyCount
                   /\ drive' = drive
                   /\ {r \in pending' : r.k \in {"LIST", "POST", "GET", "PATCH"}}
                         \subseteq pending]_vars

C25_Witness ==
    \E e \in callLog : \E p \in pullLog :
        /\ e.path = "init" /\ e.pull = "fulfilled" /\ e.outcome = "true"
        /\ p.id = e.id /\ p.caller = "init" /\ p.result = "resolved" /\ p.notified = 1

-----------------------------------------------------------------------------
(* C26: a mutation performed while a pull is in flight.  When that pull has
   resolved and the push of the mutation has resolved with its write landed,
   these two being the only calls made and nothing being in flight, the
   tables of the Local Store equal the content of the remote document. *)
C26_PullAndPushConverge ==
    \A p \in pullLog : \A e \in pushLog :
        (/\ jobs = <<>> /\ pending = {} /\ calls = 2
         /\ p.id < e.id
         /\ p.result = "resolved"
         /\ e.resolved /\ e.landed /\ ~e.alone)
            => /\ HasFile(drive, GetDriveConfig(ls).fileId)
               /\ Parse(drive[FileContent(drive, GetDriveConfig(ls).fileId)].content) = Tables(ls)

-----------------------------------------------------------------------------
(* C27: once a disconnect has stored connected = false, the stored flag stays
   false as long as no connect is made, even when a pull was in flight at the
   moment of the disconnect. *)
C27_DisconnectedStaysDisconnected ==
    Disconnects # {} => ~GetDriveConfig(ls).connected

-----------------------------------------------------------------------------
(* C28: whatever the interleaving of the pulls, two pulls in flight with no
   remote data file yet included, at most one remote data file exists, and
   no two pulls have created different files. *)
C28_OneRemoteFile ==
    /\ Len(drive) <= 1
    /\ \A p, q \in pullLog :
          (p.created # NoFile /\ q.created # NoFile) => p.created = q.created

-----------------------------------------------------------------------------
(* C29: the stored SyncConfig holds a file handle only when it holds
   connected = true.  Every step that stores connected = false stores no
   handle, and a handle is stored only by a pull, which writes it next to
   the connected = true it read. *)
C29_HandleOnlyWhenConnected ==
    /\ [](GetDriveConfig(ls).fileId # NoFile => GetDriveConfig(ls).connected)
    /\ [][ls'.cfg # ls.cfg
             => /\ ~GetDriveConfig(ls').connected => GetDriveConfig(ls').fileId = NoFile
                /\ GetDriveConfig(ls').fileId # NoFile
                      => /\ Running("sfd.file")
                         /\ Head(jobs).ctx.owner = "pull"
                         /\ Head(jobs).ctx.config.connected]_vars

C29_Witness ==
    /\ \E p \in pullLog : \E d \in Disconnects :
          p.result = "resolved" /\ p.wroteConfig /\ p.id < d.id
    /\ ls.cfg # NoItem
    /\ ~GetDriveConfig(ls).connected
    /\ GetDriveConfig(ls).fileId = NoFile

-----------------------------------------------------------------------------
(* C30: after a pull has resolved, whatever document it fetched, one without
   the wishlist or the events key included, the tables it hydrated can be
   read, and no read (getAuthInfo, getEvents, getWishlist) and no create,
   update or delete made afterwards fails. *)
C30_ReadableAfterAnyPull ==
    \A p \in pullLog :
        p.result = "resolved"
            => /\ ~Unreadable(ls, "events")
               /\ ~Unreadable(ls, "wishlist")
               /\ \A e \in retLog : e.id > p.id => ~e.threw

=============================================================================
